---------------------------- MODULE Spec2Model ----------------------------
(***************************************************************************)
(* A model of check/utils.go of goreportcard: file discovery (GoFiles),    *)
(* quarantine (RenameFiles / RevertFiles), the checker runner (GoTool with *)
(* FileSummary.AddError, fileURL, lineCount, autoGenerated) and the native *)
(* format checker (GoFmtNative).                                           *)
(*                                                                         *)
(* Go strings are TLA+ strings; the functions of package strings, strconv  *)
(* and path/filepath the code calls are operators that compute what the    *)
(* library computes.  A float64 quotient of two small integers is the      *)
(* reduced fraction <<num, den>>; NaN, +Inf and -Inf, the quotients by     *)
(* zero, are <<0, 0>>, <<1, 0>> and <<-1, 0>>.                             *)
(***************************************************************************)
EXTENDS Integers, Sequences, FiniteSets, TLC

VARIABLES
    \* GoFiles
    root,        \* the dir GoFiles is called with
    tree,        \* the files below it, each a sequence of path elements
    unreadable,  \* the directories below it that cannot be read
    wstack,      \* the entries Walk has still to visit, the next one first
    wfilenames,  \* the named result filenames
    wskipped,    \* the named result skipped
    wpc,         \* "idle", "walk" or "done"
    \* RenameFiles, RevertFiles
    qfs,         \* the filesystem: path -> content, Absent when there is no file
    qfs0,        \* the filesystem RenameFiles started from
    names,       \* the list both functions are called with
    qpc,         \* "idle", "rename", "revert" (the loop running) or "done"
    qi,          \* the loop index i (1-based)
    qerr,        \* the named result err of the running function
    renameErr,   \* what RenameFiles returned
    revertErr,   \* what RevertFiles returned
    renCalls,    \* the os.Rename calls of RenameFiles, in order
    revCalls,    \* the os.Rename calls of RevertFiles, in order
    \* GoTool
    dir,         \* the directory argument
    filenames,   \* the file list argument
    params,      \* the argument vector the command is started with
    output,      \* the lines read from the command's stdout so far
    fsMap,       \* filename -> FileSummary
    failed,      \* the summaries collected from fsMap
    waitErr,     \* what cmd.Wait() returned
    wcOut,       \* what wc -l gave lineCount
    tpc,         \* "idle", "start", "scan", "wait", "score", "done" or "panic"
    retScore,    \* the returned score
    retFailed,   \* the returned summaries
    retErr,      \* the returned error
    \* GoFmtNative
    fmtDir,      \* the directory argument
    fmtFilenames,\* the file list argument
    fmtI,        \* the position of the loop over the file list (1-based)
    fmtFailed,   \* the local failed
    fmtPc,       \* "idle", "loop" or "done"
    fmtScore,    \* the returned score
    fmtSummaries,\* the returned summaries
    fmtErr       \* the returned error

wvars == <<root, tree, unreadable, wstack, wfilenames, wskipped, wpc>>

qvars == <<qfs, qfs0, names, qpc, qi, qerr, renameErr, revertErr, renCalls, revCalls>>

tvars == <<dir, filenames, params, output, fsMap, failed, waitErr, wcOut, tpc,
           retScore, retFailed, retErr>>

fvars == <<fmtDir, fmtFilenames, fmtI, fmtFailed, fmtPc, fmtScore, fmtSummaries, fmtErr>>

vars == <<wvars, qvars, tvars, fvars>>

(***************************************************************************)
(* package strings, strconv, path/filepath                                 *)
(***************************************************************************)

\* s[i:] of a Go string (i is a 0-based byte offset).
From(s, i) == SubSeq(s, i + 1, Len(s))

HasPrefix(s, p) == Len(s) >= Len(p) /\ SubSeq(s, 1, Len(p)) = p

HasSuffix(s, p) == Len(s) >= Len(p) /\ SubSeq(s, Len(s) - Len(p) + 1, Len(s)) = p

TrimPrefix(s, p) == IF HasPrefix(s, p) THEN From(s, Len(p)) ELSE s

\* strings.Index, 1-based; 0 when sep does not occur in s.
RECURSIVE IndexFrom(_, _, _)
IndexFrom(s, sep, i) ==
    IF i + Len(sep) - 1 > Len(s) THEN 0
    ELSE IF SubSeq(s, i, i + Len(sep) - 1) = sep THEN i
    ELSE IndexFrom(s, sep, i + 1)

Index(s, sep) == IndexFrom(s, sep, 1)

Contains(s, sub) == Index(s, sub) # 0

\* strings.genSplit(s, sep, sepSave, n) for a non-empty sep; n < 0 is "all".
RECURSIVE GenSplit(_, _, _, _)
GenSplit(s, sep, sepSave, n) ==
    IF n = 0 THEN << >>
    ELSE IF n = 1 \/ Index(s, sep) = 0 THEN <<s>>
    ELSE LET m == Index(s, sep)
         IN  <<SubSeq(s, 1, m - 1 + sepSave)>>
                 \o GenSplit(From(s, m - 1 + Len(sep)), sep, sepSave, n - 1)

Split(s, sep) == GenSplit(s, sep, 0, -1)

SplitN(s, sep, n) == GenSplit(s, sep, 0, n)

SplitAfterN(s, sep, n) == GenSplit(s, sep, Len(sep), n)

RECURSIVE Join(_, _)
Join(elems, sep) ==
    IF Len(elems) = 0 THEN ""
    ELSE IF Len(elems) = 1 THEN elems[1]
    ELSE elems[1] \o sep \o Join(Tail(elems), sep)

Upper == "ABCDEFGHIJKLMNOPQRSTUVWXYZ"

Lower == "abcdefghijklmnopqrstuvwxyz"

RECURSIVE ToLower(_)
ToLower(s) ==
    IF s = "" THEN ""
    ELSE LET c == SubSeq(s, 1, 1)
             k == Index(Upper, c)
         IN  (IF k = 0 THEN c ELSE SubSeq(Lower, k, k)) \o ToLower(From(s, 1))

Digits == "0123456789"

IsDigit(c) == Index(Digits, c) # 0

RECURSIVE AllDigits(_)
AllDigits(s) == s = "" \/ (IsDigit(SubSeq(s, 1, 1)) /\ AllDigits(From(s, 1)))

RECURSIVE DigitsValue(_, _)
DigitsValue(s, acc) ==
    IF s = "" THEN acc
    ELSE DigitsValue(From(s, 1), acc * 10 + (Index(Digits, SubSeq(s, 1, 1)) - 1))

\* strconv.Atoi: an optional sign, then one or more decimal digits.
AtoiBody(s) == IF s # "" /\ SubSeq(s, 1, 1) \in {"+", "-"} THEN From(s, 1) ELSE s

AtoiOk(s) == AtoiBody(s) # "" /\ AllDigits(AtoiBody(s))

Atoi(s) ==
    IF s # "" /\ SubSeq(s, 1, 1) = "-" THEN 0 - DigitsValue(AtoiBody(s), 0)
    ELSE DigitsValue(AtoiBody(s), 0)

\* strconv.Itoa for n >= 0 (the rendering of a line or column number).
RECURSIVE Itoa(_)
Itoa(n) ==
    IF n < 10 THEN SubSeq(Digits, n + 1, n + 1)
    ELSE Itoa(n \div 10) \o SubSeq(Digits, (n % 10) + 1, (n % 10) + 1)

\* filepath.Ext: the suffix beginning at the final dot of the final element.
RECURSIVE ExtFrom(_, _)
ExtFrom(name, i) ==
    IF i < 1 \/ SubSeq(name, i, i) = "/" THEN ""
    ELSE IF SubSeq(name, i, i) = "." THEN SubSeq(name, i, Len(name))
    ELSE ExtFrom(name, i - 1)

Ext(name) == ExtFrom(name, Len(name))

\* filepath.Join(d, name) for a clean d and a single element name.
PathJoin(d, name) ==
    IF d = "." \/ d = "" THEN name
    ELSE IF d = "/" THEN "/" \o name
    ELSE d \o "/" \o name

\* float64(num) / float64(den): x/0 is NaN for x = 0 and an infinity otherwise.
NaN == <<0, 0>>

PosInf == <<1, 0>>

NegInf == <<-1, 0>>

RECURSIVE Gcd(_, _)
Gcd(a, b) == IF b = 0 THEN a ELSE Gcd(b, a % b)

Abs(n) == IF n < 0 THEN 0 - n ELSE n

FloatDiv(num, den) ==
    IF den = 0
    THEN (IF num = 0 THEN NaN ELSE IF num > 0 THEN PosInf ELSE NegInf)
    ELSE LET g == Gcd(Abs(num), Abs(den))
             sgn == IF den < 0 THEN -1 ELSE 1
         IN  <<(sgn * num) \div g, (sgn * den) \div g>>

SeqToSet(s) == {s[i] : i \in DOMAIN s}

Nil == "nil"

(***************************************************************************)
(* Module-level exclusion lists                                            *)
(***************************************************************************)

skipDirs == <<"Godeps", "vendor", "third_party">>

skipSuffixes == <<".pb.go", ".pb.gw.go", ".generated.go", "bindata.go", "_string.go">>

skipFirstLines == <<"code generated", "generated", "autogenerated", "@generated",
                    "code autogenerated", "auto-generated">>

commentStyles == <<"// ", "//", "/* ", "/*">>

(***************************************************************************)
(* Quarantine: RenameFiles followed by RevertFiles over one list of names  *)
(***************************************************************************)

MaxNames == 2

Absent == "<absent>"

Contents == {"A", "B"}

QPaths == {"a.go", "b.go", "a.go.grc.bk"}

\* BackupName with the name left out: every file is renamed to ".grc.bk".
BackupNameShared(n) == ".grc.bk"

\* names[i]+".grc.bk"
BackupName(n) == n \o ".grc.bk"

QFiles == QPaths \cup {BackupName(n) : n \in QPaths}

NameLists == UNION {[1..k -> QPaths] : k \in 0..MaxNames}

\* *os.LinkError of a failed os.Rename(old, new)
LinkError(old, new) == "rename " \o old \o " " \o new

\* os.Rename(old, new) on regular files: fails when old does not exist (or,
\* with denied, for any other reason the system has); otherwise new is
\* replaced by old and old is gone.
OsRenameOk(fs, old, denied) == fs[old] # Absent /\ ~denied

OsRename(fs, old, new, denied) ==
    IF OsRenameOk(fs, old, denied)
    THEN [fs EXCEPT ![new] = fs[old], ![old] = Absent]
    ELSE fs

\* SaveErr keeping the first error instead of the last.
SaveErrFirst(err, tmpErr) == IF err = Nil THEN tmpErr ELSE err

\* err = tmpErr
SaveErr(err, tmpErr) == tmpErr

Call(old, new, ok) == [old |-> old, new |-> new, ok |-> ok]

\* No quarantine is under way.
QIdle ==
    /\ qfs = [f \in QFiles |-> Absent]
    /\ qfs0 = qfs
    /\ names = << >>
    /\ qpc = "idle"
    /\ qi = 1
    /\ qerr = Nil
    /\ renameErr = Nil
    /\ revertErr = Nil
    /\ renCalls = << >>
    /\ revCalls = << >>

QInit ==
    /\ qfs \in [QFiles -> Contents \cup {Absent}]
    /\ qfs0 = qfs
    /\ names \in NameLists
    /\ qpc = "rename"
    /\ qi = 1
    /\ qerr = Nil
    /\ renameErr = Nil
    /\ revertErr = Nil
    /\ renCalls = << >>
    /\ revCalls = << >>

\* One iteration of the loop of RenameFiles.
RenameFilesStep ==
    /\ qpc = "rename"
    /\ qi <= Len(names)
    /\ \E denied \in BOOLEAN :
         LET old == names[qi]
             new == BackupName(names[qi])
             ok  == OsRenameOk(qfs, old, denied)
         IN  /\ qfs' = OsRename(qfs, old, new, denied)
             /\ qerr' = IF ok THEN qerr ELSE SaveErr(qerr, LinkError(old, new))
             /\ renCalls' = Append(renCalls, Call(old, new, ok))
    /\ qi' = qi + 1
    /\ UNCHANGED <<qfs0, names, qpc, renameErr, revertErr, revCalls>>
    /\ UNCHANGED <<wvars, tvars, fvars>>

\* return err of RenameFiles; the caller goes on to RevertFiles(names).
RenameFilesReturn ==
    /\ qpc = "rename"
    /\ qi > Len(names)
    /\ renameErr' = qerr
    /\ qpc' = "revert"
    /\ qi' = 1
    /\ qerr' = Nil
    /\ UNCHANGED <<qfs, qfs0, names, revertErr, renCalls, revCalls>>
    /\ UNCHANGED <<wvars, tvars, fvars>>

\* One iteration of the loop of RevertFiles.
RevertFilesStep ==
    /\ qpc = "revert"
    /\ qi <= Len(names)
    /\ \E denied \in BOOLEAN :
         LET old == BackupName(names[qi])
             new == names[qi]
             ok  == OsRenameOk(qfs, old, denied)
         IN  /\ qfs' = OsRename(qfs, old, new, denied)
             /\ qerr' = IF ok THEN qerr ELSE SaveErr(qerr, LinkError(old, new))
             /\ revCalls' = Append(revCalls, Call(old, new, ok))
    /\ qi' = qi + 1
    /\ UNCHANGED <<qfs0, names, qpc, renameErr, revertErr, renCalls>>
    /\ UNCHANGED <<wvars, tvars, fvars>>

\* return err of RevertFiles.
RevertFilesReturn ==
    /\ qpc = "revert"
    /\ qi > Len(names)
    /\ revertErr' = qerr
    /\ qpc' = "done"
    /\ UNCHANGED <<qfs, qfs0, names, qi, qerr, renameErr, renCalls, revCalls>>
    /\ UNCHANGED <<wvars, tvars, fvars>>

QNext == RenameFilesStep \/ RenameFilesReturn \/ RevertFilesStep \/ RevertFilesReturn

(***************************************************************************)
(* autoGenerated                                                           *)
(***************************************************************************)

\* The last element of a path: os.FileInfo.Name() of the file at fp.
BaseName(fp) == LET sp == Split(fp, "/") IN sp[Len(sp)]

\* The first line of the file at fp (what scanner.Scan() / scanner.Text()
\* give): the files named gen.go and auto.go carry a generated-file marker.
FirstLine(fp) ==
    IF BaseName(fp) = "gen.go" THEN "// Code generated by protoc-gen-go. DO NOT EDIT."
    ELSE IF BaseName(fp) = "auto.go" THEN "/*AUTOGENERATED*/"
    ELSE "package r"

\* The loops over skipFirstLines and commentStyles on the lowercased line.
MarkedGenerated(line) ==
    \E s \in DOMAIN skipFirstLines : \E i \in DOMAIN commentStyles :
        /\ HasPrefix(line, commentStyles[i])
        /\ HasPrefix(From(line, Len(commentStyles[i])), skipFirstLines[s])

\* autoGenerated(fp) on a filesystem whose files are `files`: false when the
\* file cannot be opened.
autoGenerated(files, fp) ==
    IF fp \notin files THEN FALSE ELSE MarkedGenerated(ToLower(FirstLine(fp)))

HasSkipSuffix(name) == \E i \in DOMAIN skipSuffixes : HasSuffix(name, skipSuffixes[i])

(***************************************************************************)
(* GoFiles: filepath.Walk(dir, visit)                                      *)
(***************************************************************************)

MaxTreeFiles == 2

Roots == {".", "p"}

TreeDirs == {<< >>, <<"d">>, <<"vendor">>, <<"d", "vendor">>, <<"vendor", "d">>,
             <<"third_party">>}

TreeFileNames == {"a.go", "g.pb.go", "gen.go", "n.txt"}

\* Every name of the trees, in the order ioutil's sorted readDirNames gives.
NameOrder == <<"a.go", "d", "g.pb.go", "gen.go", "n.txt", "third_party", "vendor">>

CandidateFiles == {d \o <<n>> : d \in TreeDirs, n \in TreeFileNames}

Prefixes(e) == {SubSeq(e, 1, k) : k \in 0..(Len(e) - 1)}

\* The directories of tree t: the root and every directory a file is in.
DirsOf(t) == {<< >>} \cup UNION {Prefixes(e) : e \in t}

\* The path Walk passes to visit for the entry e below rootDir.
RECURSIVE FullPath(_, _)
FullPath(rootDir, e) ==
    IF e = << >> THEN rootDir
    ELSE PathJoin(FullPath(rootDir, SubSeq(e, 1, Len(e) - 1)), e[Len(e)])

\* readDirNames of directory d, sorted.
Children(t, d) ==
    LET ns == {e[Len(d) + 1] : e \in {x \in t \cup DirsOf(t) :
                                        Len(x) > Len(d) /\ SubSeq(x, 1, Len(d)) = d}}
    IN  SelectSeq(NameOrder, LAMBDA n : n \in ns)

ChildEntries(t, d) ==
    LET c == Children(t, d) IN [i \in DOMAIN c |-> d \o <<c[i]>>]

\* The loop over skipDirs at the head of visit.
InSkipDir(fp) == \E i \in DOMAIN skipDirs : Contains(fp, "/" \o skipDirs[i] \o "/")

\* visit(fp, fi, err): what it appends, as <<to filenames, to skipped>>.
Visit(files, fp, isDir, hasErr) ==
    IF InSkipDir(fp) THEN <<<< >>, << >>>>
    ELSE IF hasErr THEN <<<< >>, << >>>>
    ELSE IF isDir THEN <<<< >>, << >>>>
    ELSE IF HasSkipSuffix(BaseName(fp)) THEN <<<< >>, <<fp>>>>
    ELSE IF Ext(BaseName(fp)) # ".go" THEN <<<< >>, << >>>>
    ELSE IF autoGenerated(files, fp) THEN <<<< >>, <<fp>>>>
    ELSE <<<<fp>>, << >>>>

TreePaths(rootDir, t) == {FullPath(rootDir, e) : e \in t}

\* No walk is under way.
WIdle ==
    /\ root = "."
    /\ tree = {}
    /\ unreadable = {}
    /\ wstack = << >>
    /\ wfilenames = << >>
    /\ wskipped = << >>
    /\ wpc = "idle"

WInit ==
    /\ root \in Roots
    /\ tree \in {t \in SUBSET CandidateFiles : Cardinality(t) <= MaxTreeFiles}
    /\ unreadable \in {u \in SUBSET (DirsOf(tree) \ {<< >>}) : Cardinality(u) <= 1}
    /\ wstack = << << >> >>
    /\ wfilenames = << >>
    /\ wskipped = << >>
    /\ wpc = "walk"

\* walk of a directory: visit is called for it, and with the error when its
\* names cannot be read (visit adds nothing in either call); the entries of
\* a directory that can be read are walked in order.
WalkDir ==
    /\ wpc = "walk"
    /\ wstack # << >>
    /\ Head(wstack) \in DirsOf(tree)
    /\ LET e  == Head(wstack)
           fp == FullPath(root, e)
           v1 == Visit(TreePaths(root, tree), fp, TRUE, FALSE)
           v2 == IF e \in unreadable
                 THEN Visit(TreePaths(root, tree), fp, TRUE, TRUE)
                 ELSE <<<< >>, << >>>>
       IN  /\ wfilenames' = wfilenames \o v1[1] \o v2[1]
           /\ wskipped' = wskipped \o v1[2] \o v2[2]
           /\ wstack' = (IF e \in unreadable THEN << >> ELSE ChildEntries(tree, e))
                            \o Tail(wstack)
    /\ UNCHANGED <<root, tree, unreadable, wpc>>
    /\ UNCHANGED <<qvars, tvars, fvars>>

\* walk of a file: visit it.
WalkFile ==
    /\ wpc = "walk"
    /\ wstack # << >>
    /\ Head(wstack) \in tree
    /\ LET v == Visit(TreePaths(root, tree), FullPath(root, Head(wstack)), FALSE, FALSE)
       IN  /\ wfilenames' = wfilenames \o v[1]
           /\ wskipped' = wskipped \o v[2]
    /\ wstack' = Tail(wstack)
    /\ UNCHANGED <<root, tree, unreadable, wpc>>
    /\ UNCHANGED <<qvars, tvars, fvars>>

\* return filenames, skipped, err
GoFilesReturn ==
    /\ wpc = "walk"
    /\ wstack = << >>
    /\ wpc' = "done"
    /\ UNCHANGED <<root, tree, unreadable, wstack, wfilenames, wskipped>>
    /\ UNCHANGED <<qvars, tvars, fvars>>

WNext == WalkDir \/ WalkFile \/ GoFilesReturn

(***************************************************************************)
(* FileSummary, AddError, fileURL, lineCount                               *)
(***************************************************************************)

\* The zero value of FileSummary.
ZeroSummary == [Filename |-> "", FileURL |-> "", Errors |-> << >>]

\* AddErrorMsg with strings.Split: the message ends at its first ":".
AddErrorMsgSplit(rest) == Split(rest, ":")[3]

\* msg := strings.SplitAfterN(s[1], ":", 3)[2]
AddErrorMsg(rest) == SplitAfterN(rest, ":", 3)[3]

\* *strconv.NumError of strconv.Atoi(s)
AtoiError(s) == "strconv.Atoi: parsing \"" \o s \o "\": invalid syntax"

\* fs.AddError(out): the index expressions s[1] and [2] panic when the line
\* has no ":" or fewer than two ":" after the first.
AddError(fs, out) ==
    LET s == SplitN(out, ":", 2)
    IN  IF Len(s) < 2 \/ Len(SplitAfterN(s[2], ":", 3)) < 3
        THEN [panic |-> TRUE, err |-> Nil, fs |-> fs]
        ELSE LET msg == AddErrorMsg(s[2])
                 ls  == Split(s[2], ":")
             IN  IF ~AtoiOk(ls[1])
                 THEN [panic |-> FALSE, err |-> AtoiError(ls[1]), fs |-> fs]
                 ELSE [panic |-> FALSE, err |-> Nil,
                       fs |-> [fs EXCEPT !.Errors =
                                 Append(@, [LineNumber |-> Atoi(ls[1]),
                                            ErrorString |-> msg])]]

fileURL(d, filename) ==
    LET base == TrimPrefix(d, "repos/src/")
        sp   == Split(base, "/")
    IN  IF HasPrefix(base, "golang.org/x/")
        THEN "https://github.com/golang/" \o (IF Len(sp) >= 3 THEN sp[3] ELSE "")
                 \o "/blob/master" \o TrimPrefix(filename, "/" \o base)
        ELSE IF HasPrefix(base, "github.com/")
        THEN LET b == IF Len(sp) = 4 THEN Join(SubSeq(sp, 1, 3), "/") ELSE base
             IN  "https://" \o b \o "/blob/master" \o TrimPrefix(filename, "/" \o b)
        ELSE ""

\* fs.Filename of a new summary: filename, or what follows its first three
\* elements when it starts with /github.com.
SummaryFilename(filename) ==
    LET sp == Split(filename, "/")
    IN  IF HasPrefix(filename, "/github.com") /\ Len(sp) > 3
        THEN Join(SubSeq(sp, 4, Len(sp)), "/")
        ELSE filename

Space == {" ", "\n", "\t", "\r"}

RECURSIVE TrimLeftSpace(_)
TrimLeftSpace(s) ==
    IF s # "" /\ SubSeq(s, 1, 1) \in Space THEN TrimLeftSpace(From(s, 1)) ELSE s

RECURSIVE TrimRightSpace(_)
TrimRightSpace(s) ==
    IF s # "" /\ SubSeq(s, Len(s), Len(s)) \in Space
    THEN TrimRightSpace(SubSeq(s, 1, Len(s) - 1))
    ELSE s

TrimSpace(s) == TrimRightSpace(TrimLeftSpace(s))

\* What exec.Command("wc", "-l", filepath).Output() gives: an error, or the
\* text wc prints for a file of n lines.
WcFails == [err |-> "exit status 1", out |-> ""]

WcPrints(n, filepath) == [err |-> Nil, out |-> Itoa(n) \o " " \o filepath \o "\n"]

\* lineCount, given wc's result: <<count, err>>.
lineCount(wc) ==
    IF wc.err # Nil THEN <<0, wc.err>>
    ELSE LET field == Split(TrimSpace(wc.out), " ")[1]
         IN  IF AtoiOk(field) THEN <<Atoi(field), Nil>> ELSE <<0, AtoiError(field)>>

\* addSkipDirs
RECURSIVE addSkipDirsFrom(_, _)
addSkipDirsFrom(p, i) ==
    IF i > Len(skipDirs) THEN p
    ELSE addSkipDirsFrom(Append(p, "--skip=" \o skipDirs[i]), i + 1)

addSkipDirs(p) == addSkipDirsFrom(p, 1)

(***************************************************************************)
(* GoTool                                                                  *)
(***************************************************************************)

MaxLines == 2

RepoDir == "repos/src/github.com/o/r"

\* The files on disk while a check runs.
CheckFiles == {RepoDir \o "/a.go", RepoDir \o "/b.go", RepoDir \o "/g.pb.go",
               RepoDir \o "/gen.go", "pkg/file.go", "pkg/auto.go"}

Dirs == {RepoDir, "pkg"}

Command == <<"gometalinter", "--disable-all", "--enable=golint">>

TenFiles ==
    <<RepoDir \o "/a.go", RepoDir \o "/b.go">>
        \o [i \in 1..8 |-> RepoDir \o "/f" \o Itoa(i) \o ".go"]

FileLists == {<< >>, <<RepoDir \o "/a.go">>, <<"pkg/file.go">>,
              <<RepoDir \o "/a.go", RepoDir \o "/b.go">>, TenFiles}

LineCounts == {0, 2, 100}

\* A report line path:line:column:message the tool prints for the file at
\* `path`.  excluded: the file has an excluded suffix or a generated-file
\* marker.  kept: the line is one the loop of GoTool hands to AddError.
Report(path, ln, col, msg, excluded, kept) ==
    [text |-> path \o ":" \o Itoa(ln) \o ":" \o Itoa(col) \o ":" \o msg,
     wf |-> TRUE, path |-> path, ln |-> ln, msg |-> msg,
     excluded |-> excluded, kept |-> kept]

\* A line of any other shape.
Noise(text, path) ==
    [text |-> text, wf |-> FALSE, path |-> path, ln |-> 0, msg |-> "",
     excluded |-> FALSE, kept |-> TRUE]

ExampleLine == Report("pkg/file.go", 42, 7, " unused variable x", FALSE, TRUE)

ToolLines ==
    {Report(RepoDir \o "/a.go", 3, 1, " m", FALSE, TRUE),
     Report(RepoDir \o "/a.go", 4, 12, " x: y", FALSE, TRUE),
     Report(RepoDir \o "/b.go", 9, 1, " m", FALSE, TRUE),
     ExampleLine,
     Report(RepoDir \o "/g.pb.go", 1, 1, " m", TRUE, FALSE),
     Report(RepoDir \o "/gen.go", 1, 1, " m", TRUE, FALSE),
     Report("pkg/auto.go", 5, 1, " m", TRUE, TRUE),
     Noise("pkg/file.go:x:7: m", "pkg/file.go"),
     Noise("pkg/file.go:42", "pkg/file.go"),
     Noise("exit status 2", "exit status 2")}

\* What cmd.Wait() returns: nil, an *exec.ExitError (the command exited
\* with a status other than 0, or was ended by a signal: ExitStatus() is
\* then -1), or an error of another type.
WaitResults ==
    {[err |-> Nil, exitError |-> FALSE, status |-> 0],
     [err |-> "exit status 1", exitError |-> TRUE, status |-> 1],
     [err |-> "exit status 2", exitError |-> TRUE, status |-> 2],
     [err |-> "signal: killed", exitError |-> TRUE, status |-> -1],
     [err |-> "wait: no child processes", exitError |-> FALSE, status |-> 0]}

NotWaited == [err |-> "<not waited>", exitError |-> FALSE, status |-> 0]

NoWc == [err |-> "<not run>", out |-> ""]

\* The orders in which `for _, v := range fsMap` may give the values.
RangeOrders(m) ==
    {o \in [1..Cardinality(DOMAIN m) -> DOMAIN m] :
        \A i, j \in DOMAIN o : i # j => o[i] # o[j]}

\* PassRate counting the issues of the failed files instead of the files.
RECURSIVE CountErrors(_, _)
CountErrors(failedList, i) ==
    IF i > Len(failedList) THEN 0
    ELSE Len(failedList[i].Errors) + CountErrors(failedList, i + 1)

PassRateByIssues(filenameList, failedList) ==
    FloatDiv(Len(filenameList) - CountErrors(failedList, 1), Len(filenameList))

\* float64(len(filenames)-len(failed)) / float64(len(filenames))
PassRate(filenameList, failedList) ==
    FloatDiv(Len(filenameList) - Len(failedList), Len(filenameList))

TIdle ==
    /\ dir = "."
    /\ filenames = << >>
    /\ params = << >>
    /\ output = << >>
    /\ fsMap = << >>
    /\ failed = << >>
    /\ waitErr = NotWaited
    /\ wcOut = NoWc
    /\ tpc = "idle"
    /\ retScore = NaN
    /\ retFailed = << >>
    /\ retErr = Nil

TInit ==
    /\ dir \in Dirs
    /\ filenames \in FileLists
    /\ params = << >>
    /\ output = << >>
    /\ fsMap = << >>
    /\ failed = << >>
    /\ waitErr = NotWaited
    /\ wcOut = NoWc
    /\ tpc = "start"
    /\ retScore = NaN
    /\ retFailed = << >>
    /\ retErr = Nil

Return(score, summaries, err) ==
    /\ tpc' = "done"
    /\ retScore' = score
    /\ retFailed' = summaries
    /\ retErr' = err

\* The argument vector, cmd.StdoutPipe() and cmd.Start().
GoToolStart ==
    /\ tpc = "start"
    /\ params' = Append(addSkipDirs(Tail(Command)), dir \o "/...")
    /\ \E started \in BOOLEAN :
         IF started
         THEN tpc' = "scan" /\ UNCHANGED <<retScore, retFailed, retErr>>
         ELSE Return(<<0, 1>>, << >>, "exec: not started")
    /\ UNCHANGED <<dir, filenames, output, fsMap, failed, waitErr, wcOut>>
    /\ UNCHANGED <<wvars, qvars, fvars>>

\* One iteration of the loop over out.Scan().
GoToolScanLine ==
    /\ tpc = "scan"
    /\ Len(output) < MaxLines
    /\ \E l \in ToolLines :
         LET filename == TrimPrefix(Split(l.text, ":")[1], "repos/src")
             fs0 == IF filename \in DOMAIN fsMap THEN fsMap[filename] ELSE ZeroSummary
             fs1 == IF fs0.Filename = ""
                    THEN [fs0 EXCEPT !.Filename = SummaryFilename(filename),
                                     !.FileURL = fileURL(dir, filename)]
                    ELSE fs0
             r   == AddError(fs1, l.text)
         IN  /\ output' = Append(output, l)
             /\ IF HasSkipSuffix(filename)
                     \/ autoGenerated(CheckFiles, "repos/src" \o filename)
                THEN UNCHANGED <<fsMap, tpc, retScore, retFailed, retErr>>
                ELSE IF r.panic
                THEN tpc' = "panic" /\ UNCHANGED <<fsMap, retScore, retFailed, retErr>>
                ELSE IF r.err # Nil
                THEN Return(<<0, 1>>, << >>, r.err) /\ UNCHANGED fsMap
                ELSE /\ fsMap' = [k \in DOMAIN fsMap \cup {filename} |->
                                    IF k = filename THEN r.fs ELSE fsMap[k]]
                     /\ UNCHANGED <<tpc, retScore, retFailed, retErr>>
    /\ UNCHANGED <<dir, filenames, params, failed, waitErr, wcOut>>
    /\ UNCHANGED <<wvars, qvars, fvars>>

\* out.Scan() returns false: the stream ended, or reading it failed.
GoToolScanEnd ==
    /\ tpc = "scan"
    /\ \E readFailed \in BOOLEAN :
         IF readFailed
         THEN Return(<<0, 1>>, << >>, "read |0: file already closed")
         ELSE tpc' = "wait" /\ UNCHANGED <<retScore, retFailed, retErr>>
    /\ UNCHANGED <<dir, filenames, params, output, fsMap, failed, waitErr, wcOut>>
    /\ UNCHANGED <<wvars, qvars, fvars>>

\* The loop over fsMap, cmd.Wait() and the test of its error.
GoToolWait ==
    /\ tpc = "wait"
    /\ \E o \in RangeOrders(fsMap) : failed' = [i \in DOMAIN o |-> fsMap[o[i]]]
    /\ \E w \in WaitResults :
         /\ waitErr' = w
         /\ IF w.exitError /\ w.status # 1
            THEN Return(<<0, 1>>, failed', w.err)
            ELSE tpc' = "score" /\ UNCHANGED <<retScore, retFailed, retErr>>
    /\ UNCHANGED <<dir, filenames, params, output, fsMap, wcOut>>
    /\ UNCHANGED <<wvars, qvars, fvars>>

\* The two score formulas.
GoToolScore ==
    /\ tpc = "score"
    /\ IF Len(filenames) = 1
       THEN \E wc \in {WcFails} \cup {WcPrints(n, filenames[1]) : n \in LineCounts} :
              LET lc     == lineCount(wc)
                  errors == IF Len(failed) # 0 THEN Len(failed[1].Errors) ELSE 0
              IN  /\ wcOut' = wc
                  /\ IF lc[2] # Nil
                     THEN Return(<<0, 1>>, failed, lc[2])
                     ELSE Return(FloatDiv(lc[1] - errors, lc[1]), failed, Nil)
       ELSE /\ Return(PassRate(filenames, failed), failed, Nil)
            /\ UNCHANGED wcOut
    /\ UNCHANGED <<dir, filenames, params, output, fsMap, failed, waitErr>>
    /\ UNCHANGED <<wvars, qvars, fvars>>

TNext == GoToolStart \/ GoToolScanLine \/ GoToolScanEnd \/ GoToolWait \/ GoToolScore

(***************************************************************************)
(* GoFmtNative                                                             *)
(***************************************************************************)

MaxFmtFiles == 2

FmtFiles == {RepoDir \o "/a.go", RepoDir \o "/g.pb.go", RepoDir \o "/gen.go",
             "pkg/file.go", "pkg/missing.go"}

FmtLists == UNION {[1..k -> FmtFiles] : k \in 0..MaxFmtFiles}

\* What format.Source makes of a file's content: the same bytes, other
\* bytes, or an error.
FormatResults == {"same", "differs", "error"}

\* The loop over skipSuffixes at the head of the loop body: its continue
\* statement continues that loop, not the loop over filenames, so the loop
\* skips no file.
SuffixLoopSkips(f) == FALSE

\* The summary of a file that is not gofmted.
FmtSummary(d, f) ==
    [Filename |-> SummaryFilename(TrimPrefix(f, "repos/src")),
     FileURL  |-> fileURL(d, TrimPrefix(f, "repos/src")),
     Errors   |-> <<[LineNumber |-> 1, ErrorString |-> "file is not gofmted"]>>]

FIdle ==
    /\ fmtDir = "."
    /\ fmtFilenames = << >>
    /\ fmtI = 1
    /\ fmtFailed = << >>
    /\ fmtPc = "idle"
    /\ fmtScore = NaN
    /\ fmtSummaries = << >>
    /\ fmtErr = Nil

FInit ==
    /\ fmtDir \in Dirs
    /\ fmtFilenames \in FmtLists
    /\ fmtI = 1
    /\ fmtFailed = << >>
    /\ fmtPc = "loop"
    /\ fmtScore = NaN
    /\ fmtSummaries = << >>
    /\ fmtErr = Nil

FmtReturn(score, summaries, err) ==
    /\ fmtPc' = "done"
    /\ fmtScore' = score
    /\ fmtSummaries' = summaries
    /\ fmtErr' = err

\* One iteration of the loop over filenames.
GoFmtNativeStep ==
    /\ fmtPc = "loop"
    /\ fmtI <= Len(fmtFilenames)
    /\ LET f == fmtFilenames[fmtI]
       IN  IF SuffixLoopSkips(f) \/ autoGenerated(CheckFiles, f)
           THEN /\ fmtI' = fmtI + 1
                /\ UNCHANGED <<fmtFailed, fmtPc, fmtScore, fmtSummaries, fmtErr>>
           ELSE IF f \notin CheckFiles
           THEN /\ FmtReturn(<<0, 1>>, << >>, "open " \o f \o ": no such file or directory")
                /\ UNCHANGED <<fmtI, fmtFailed>>
           ELSE \E g \in FormatResults :
                  IF g = "error"
                  THEN /\ FmtReturn(<<0, 1>>, << >>, "format.Source: syntax error")
                       /\ UNCHANGED <<fmtI, fmtFailed>>
                  ELSE /\ fmtFailed' = IF g = "differs"
                                       THEN Append(fmtFailed, FmtSummary(fmtDir, f))
                                       ELSE fmtFailed
                       /\ fmtI' = fmtI + 1
                       /\ UNCHANGED <<fmtPc, fmtScore, fmtSummaries, fmtErr>>
    /\ UNCHANGED <<fmtDir, fmtFilenames>>
    /\ UNCHANGED <<wvars, qvars, tvars>>

\* The return after the loop.
GoFmtNativeReturn ==
    /\ fmtPc = "loop"
    /\ fmtI > Len(fmtFilenames)
    /\ FmtReturn(PassRate(fmtFilenames, fmtFailed), fmtFailed, Nil)
    /\ UNCHANGED <<fmtDir, fmtFilenames, fmtI, fmtFailed>>
    /\ UNCHANGED <<wvars, qvars, tvars>>

FNext == GoFmtNativeStep \/ GoFmtNativeReturn

(***************************************************************************)
(* Specifications: one per component, the others idle                      *)
(***************************************************************************)

Init == TInit /\ WIdle /\ QIdle /\ FIdle

Next == TNext

\* GoTool
Spec == Init /\ [][Next]_vars

InitGoFiles == WInit /\ QIdle /\ TIdle /\ FIdle

\* GoFiles
SpecGoFiles == InitGoFiles /\ [][WNext]_vars

InitQuarantine == QInit /\ WIdle /\ TIdle /\ FIdle

\* RenameFiles, then RevertFiles
SpecQuarantine == InitQuarantine /\ [][QNext]_vars

InitGoFmtNative == FInit /\ WIdle /\ QIdle /\ TIdle

\* GoFmtNative
SpecGoFmtNative == InitGoFmtNative /\ [][FNext]_vars

(***************************************************************************)
(* Properties                                                              *)
(***************************************************************************)

\* The summaries `summaries` hold none for the file at path p.
NoSummaryFor(summaries, p) ==
    \A j \in DOMAIN summaries :
        summaries[j].Filename # SummaryFilename(TrimPrefix(p, "repos/src"))

\* C1: neither GoFmtNative nor GoTool returns a FileSummary for a file whose
\* name ends in an excluded suffix or whose first line carries a
\* generated-file marker, also when the file is in the file list or the
\* tool reports it.
C1_NoSummaryForExcluded ==
    /\ fmtPc = "done" =>
         \A i \in DOMAIN fmtFilenames :
             (HasSkipSuffix(fmtFilenames[i]) \/ autoGenerated(CheckFiles, fmtFilenames[i]))
                 => NoSummaryFor(fmtSummaries, fmtFilenames[i])
    /\ tpc = "done" =>
         \A i \in DOMAIN output :
             output[i].excluded => NoSummaryFor(retFailed, output[i].path)

\* The paths for which both the os.Rename of RenameFiles and that of
\* RevertFiles succeeded.
RenamedAndReverted ==
    {p \in SeqToSet(names) :
        /\ \E i \in DOMAIN renCalls : renCalls[i].old = p /\ renCalls[i].ok
        /\ \E j \in DOMAIN revCalls : revCalls[j].new = p /\ revCalls[j].ok}

Restored(p) == qfs[p] # Absent /\ qfs[p] = qfs0[p]

\* C2 as stated: for any list and any filesystem, after RenameFiles and
\* RevertFiles every path renamed in both steps has its original name and
\* content.
C2_Original == qpc = "done" => \A p \in RenamedAndReverted : Restored(p)

\* No path of the list is another path of the list followed by ".grc.bk".
NoBackupListed ==
    \A i, j \in DOMAIN names : names[i] # names[j] \o ".grc.bk"

\* C2 (amended): for any filesystem and any list in which no path is another
\* listed path followed by ".grc.bk", after RenameFiles and RevertFiles every
\* path renamed in both steps has its original name and content, also when
\* renames of other paths failed.
C2_RoundTrip ==
    (qpc = "done" /\ NoBackupListed) => \A p \in RenamedAndReverted : Restored(p)

\* C2: a list of that kind with a path renamed and reverted while other
\* renames failed in each step.
C2_Witness ==
    /\ qpc = "done"
    /\ NoBackupListed
    /\ RenamedAndReverted # {}
    /\ \E i \in DOMAIN renCalls : ~renCalls[i].ok
    /\ \E j \in DOMAIN revCalls : ~revCalls[j].ok

\* The error of the last failed call of `calls`, Nil when none failed.
LastFailure(calls) ==
    LET F == {i \in DOMAIN calls : ~calls[i].ok}
    IN  IF F = {} THEN Nil
        ELSE LET m == CHOOSE i \in F : \A j \in F : j <= i
             IN  LinkError(calls[m].old, calls[m].new)

\* C3: RenameFiles and RevertFiles each attempt the rename of every path of
\* the list, whatever failed before, and return the error of the last path
\* whose rename failed: nil exactly when none failed.
C3_BestEffort ==
    /\ qpc \in {"revert", "done"} =>
         /\ Len(renCalls) = Len(names)
         /\ \A i \in DOMAIN names :
                renCalls[i].old = names[i] /\ renCalls[i].new = names[i] \o ".grc.bk"
         /\ renameErr = LastFailure(renCalls)
         /\ (renameErr = Nil <=> \A i \in DOMAIN renCalls : renCalls[i].ok)
    /\ qpc = "done" =>
         /\ Len(revCalls) = Len(names)
         /\ \A i \in DOMAIN names :
                revCalls[i].old = names[i] \o ".grc.bk" /\ revCalls[i].new = names[i]
         /\ revertErr = LastFailure(revCalls)
         /\ (revertErr = Nil <=> \A i \in DOMAIN revCalls : revCalls[i].ok)

\* C3: both renames of RenameFiles failed, on different paths, the first of
\* RevertFiles failed and its second succeeded; each returned the error of
\* its last failure.
C3_Witness ==
    /\ qpc = "done"
    /\ Len(names) = 2
    /\ ~renCalls[1].ok /\ ~renCalls[2].ok
    /\ renCalls[1].old # renCalls[2].old
    /\ ~revCalls[1].ok /\ revCalls[2].ok
    /\ renameErr = LinkError(names[2], names[2] \o ".grc.bk")
    /\ revertErr = LinkError(names[1] \o ".grc.bk", names[1])

\* The entry e of the tree is below a directory of D named in skipDirs.
UnderSkipDir(e) == \E k \in 1..(Len(e) - 1) : e[k] \in SeqToSet(skipDirs)

\* The .go files under D outside the excluded directories.
AnalyzableFiles ==
    {FullPath(root, e) : e \in {x \in tree : Ext(x[Len(x)]) = ".go" /\ ~UnderSkipDir(x)}}

\* C4: whatever root path D is walked from, the lists GoFiles returns are
\* disjoint, together they are the .go files under D that are not inside a
\* directory named Godeps, vendor or third_party, and no file below such a
\* directory is in either list (here for a tree all of whose directories
\* can be read).
C4_Partition ==
    (wpc = "done" /\ unreadable = {}) =>
        /\ SeqToSet(wfilenames) \cap SeqToSet(wskipped) = {}
        /\ SeqToSet(wfilenames) \cup SeqToSet(wskipped) = AnalyzableFiles
        /\ \A e \in tree :
               UnderSkipDir(e) =>
                   FullPath(root, e) \notin SeqToSet(wfilenames) \cup SeqToSet(wskipped)

\* C5: a malformed line that reaches the parser ends the run of GoTool with
\* a non-nil error and an empty collection, and in no other way.
C5_MalformedLineIsParseError ==
    \A i \in DOMAIN output :
        ~output[i].wf => (tpc = "done" /\ retErr # Nil /\ retFailed = << >>)

\* cmd.Wait() reported exit code 0 or exit code 1.
WaitNormal == waitErr.err = Nil \/ (waitErr.exitError /\ waitErr.status = 1)

\* C6: once the process is waited for, exit codes 0 and 1 lead on to
\* scoring; any other outcome of the wait makes GoTool return a non-nil
\* error together with the summaries gathered from the stream.
C6_WaitOutcome ==
    waitErr # NotWaited =>
        IF WaitNormal
        THEN tpc = "score" \/ (tpc = "done" /\ retErr = lineCount(wcOut)[2])
                           \/ (tpc = "done" /\ wcOut = NoWc /\ retErr = Nil)
        ELSE tpc = "done" /\ retErr # Nil /\ retFailed = failed

\* C7: for a non-empty file list, when the tool prints nothing and exits
\* with code 0 (and wc can count the lines of a single file), GoTool
\* returns score 1.0, no summaries and no error.
C7_CleanRunScoresOne ==
    (/\ tpc = "done"
     /\ Len(filenames) >= 1
     /\ output = << >>
     /\ waitErr.err = Nil
     /\ wcOut # WcFails) =>
        retScore = <<1, 1>> /\ retFailed = << >> /\ retErr = Nil

AllWellFormed == \A i \in DOMAIN output : output[i].wf

\* The number of lines of the output that report an issue of file f.
IssuesFor(f) == Cardinality({i \in DOMAIN output : output[i].path = f})

\* C8: with exactly one file in the list, of one line or more, and
\* well-formed output, the score is (line count of the file - issues
\* reported for that file) / line count, also when the output mentions
\* other files.
C8_SingleFileScore ==
    (/\ tpc = "done"
     /\ retErr = Nil
     /\ Len(filenames) = 1
     /\ AllWellFormed
     /\ lineCount(wcOut)[1] > 0) =>
        retScore = FloatDiv(lineCount(wcOut)[1] - IssuesFor(filenames[1]),
                            lineCount(wcOut)[1])

DirectoryRun == tpc = "done" /\ retErr = Nil /\ Len(filenames) # 1 /\ AllWellFormed

\* The files of the list with at least one issue in the output.
ListedWithIssue == {f \in SeqToSet(filenames) : IssuesFor(f) > 0}

\* C9 as stated: in directory mode (here: two files or more) the score is
\* (files in the list - files of the list with at least one issue) / files
\* in the list.
C9_Original ==
    (DirectoryRun /\ Len(filenames) >= 2) =>
        retScore = FloatDiv(Len(filenames) - Cardinality(ListedWithIssue), Len(filenames))

\* The distinct paths the output reports that pass the filter of GoTool
\* (no excluded suffix, no generated-file marker in the file at
\* "repos/src" + path), in the list or not.
ReportedKept == {output[i].path : i \in {j \in DOMAIN output : output[j].kept}}

\* C9 (amended): in directory mode, for well-formed output, the score is
\* (files in the list - distinct paths the output reports that pass the
\* filter of GoTool, listed or not) / files in the list, whatever the number
\* of issues of each file.
C9_DirectoryScore ==
    DirectoryRun =>
        retScore = FloatDiv(Len(filenames) - Cardinality(ReportedKept), Len(filenames))

\* C9: ten files in the list, two of them reported: the score is 0.8.
C9_Witness ==
    /\ DirectoryRun
    /\ Len(filenames) = 10
    /\ Cardinality(ReportedKept) = 2
    /\ ReportedKept \subseteq SeqToSet(filenames)
    /\ retScore = <<4, 5>>

\* The Errors AddError has to have built for path p: one per report line of
\* p, in order, with the line's number and its text after the column field.
ExpectedErrors(p) ==
    LET sel == SelectSeq(output, LAMBDA l : l.wf /\ l.kept /\ l.path = p)
    IN  [i \in DOMAIN sel |-> [LineNumber |-> sel[i].ln, ErrorString |-> sel[i].msg]]

\* C10 (amended): for every well-formed line path:line:column:message that
\* reaches it, AddError appends exactly one Error whose LineNumber is the
\* integer of the second field and whose ErrorString is all the text after
\* the ":" that ends the column field, embedded ":" and the leading space
\* included: "pkg/file.go:42:7: unused variable x" gives
\* {42, " unused variable x"}.
C10_AddError ==
    (tpc \in {"scan", "wait", "score", "done"} /\ AllWellFormed) =>
        /\ \A l \in {x \in ToolLines : x.wf /\ x.kept} :
               LET k == TrimPrefix(l.path, "repos/src")
               IN  IF ExpectedErrors(l.path) = << >>
                   THEN k \notin DOMAIN fsMap
                   ELSE k \in DOMAIN fsMap /\ fsMap[k].Errors = ExpectedErrors(l.path)
        /\ output = <<ExampleLine>> =>
               fsMap["pkg/file.go"].Errors =
                   <<[LineNumber |-> 42, ErrorString |-> " unused variable x"]>>

\* C10: the example line and a line whose message holds a ":" were added.
C10_Witness ==
    /\ tpc = "scan"
    /\ Len(output) = 2
    /\ output[1] = ExampleLine
    /\ output[2].msg = " x: y"
    /\ fsMap["pkg/file.go"].Errors =
           <<[LineNumber |-> 42, ErrorString |-> " unused variable x"]>>
    /\ fsMap["/github.com/o/r/a.go"].Errors =
           <<[LineNumber |-> 4, ErrorString |-> " x: y"]>>

\* C10 as stated: the line "pkg/file.go:42:7: unused variable x" yields
\* {lineNumber: 42, message: "unused variable x"}.
C10_Original ==
    (tpc = "scan" /\ output = <<ExampleLine>>) =>
        fsMap["pkg/file.go"].Errors =
            <<[LineNumber |-> 42, ErrorString |-> "unused variable x"]>>

=============================================================================
